---- MODULE Spec2Model ----
(***************************************************************************)
(* Model of clockifyclient/models.py: the object-mapping layer between     *)
(* Clockify JSON dictionaries and typed objects.                           *)
(*                                                                         *)
(* Python values are tagged records (field t is the Python type).  A str   *)
(* is a sequence of one-character strings, a dict a function from its keys *)
(* to values, a datetime a wall clock in seconds counted from              *)
(* 2023-01-01T00:00:00 plus microseconds and an optional utc offset.  A    *)
(* call of a function of the module yields an outcome: the value returned  *)
(* or the class of the exception that leaves the call.                     *)
(***************************************************************************)
EXTENDS Integers, Sequences, FiniteSets, TLC

VARIABLES tzlocal, call, ret

vars == <<tzlocal, call, ret>>

-----------------------------------------------------------------------------
(* Bounds of the explored inputs                                           *)

MaxDay == 3
MaxOffsetHours == 1
MaxMsgLen == 5
MaxLength == 5

-----------------------------------------------------------------------------
(* Python values                                                           *)

None == [t |-> "None"]
Str(s) == [t |-> "str", s |-> s]
IntV(n) == [t |-> "int", n |-> n]
BoolV(b) == [t |-> "bool", b |-> b]
Dict(f) == [t |-> "dict", d |-> f]
DateTime(secs, us, aware, off) ==
    [t |-> "datetime", secs |-> secs, us |-> us, aware |-> aware, off |-> off]

\* bool(v): the truth value Python gives a value in `if v` / `if not v`
Truthy(v) ==
    CASE v.t = "None" -> FALSE
      [] v.t = "str" -> Len(v.s) > 0
      [] v.t = "int" -> v.n # 0
      [] v.t = "bool" -> v.b
      [] v.t = "dict" -> DOMAIN v.d # {}
      [] OTHER -> TRUE

\* outcomes of a call
Return(v) == [exc |-> "none", val |-> v]
Raise(e) == [exc |-> e, val |-> None]

-----------------------------------------------------------------------------
(* ClockifyDatetime                                                        *)

Digits == <<"0", "1", "2", "3", "4", "5", "6", "7", "8", "9">>
D2(n) == <<Digits[(n \div 10) + 1], Digits[(n % 10) + 1]>>
IsDigit(c) == \E i \in 1..10 : Digits[i] = c
DigitVal(c) == (CHOOSE i \in 1..10 : Digits[i] = c) - 1
N2(s, i) == 10 * DigitVal(s[i]) + DigitVal(s[i + 1])

\* year and month of every timestamp explored: "2023-01-"
YearMonth == <<"2", "0", "2", "3", "-", "0", "1", "-">>

\* slip: a naive datetime is taken to be UTC
ClockifyDatetime_assume_utc(datetime_in, local) ==
    IF ~datetime_in.aware
    THEN [datetime_in EXCEPT !.aware = TRUE, !.off = 0]
    ELSE datetime_in

\* ClockifyDatetime.__init__: a naive datetime gets the local zone
ClockifyDatetime(datetime_in, local) ==
    IF ~datetime_in.aware
    THEN [datetime_in EXCEPT !.aware = TRUE, !.off = local]
    ELSE datetime_in

\* slip: the zone is replaced by UTC and the wall clock kept
datetime_utc_keep_wall(dt) == [dt EXCEPT !.off = 0]

\* ClockifyDatetime.datetime_utc: astimezone(UTC)
datetime_utc(dt) == [dt EXCEPT !.secs = dt.secs - dt.off, !.off = 0]

\* ClockifyDatetime.datetime_local: astimezone(tzlocal())
datetime_local(dt, local) ==
    [dt EXCEPT !.secs = dt.secs - dt.off + local, !.off = local]

\* strftime("%Y-%m-%dT%H:%M:%SZ"): microseconds and offset are not printed
strftime(dt) ==
    LET day == (dt.secs \div 86400) + 1
        h == (dt.secs % 86400) \div 3600
        m == (dt.secs % 3600) \div 60
        s == dt.secs % 60
    IN  YearMonth \o D2(day) \o <<"T">> \o D2(h) \o <<":">> \o D2(m)
            \o <<":">> \o D2(s) \o <<"Z">>

\* ClockifyDatetime.clockify_datetime / __str__
clockify_datetime(dt) == Str(strftime(datetime_utc(dt)))

\* dateutil.parser.parse on the ISO forms the service emits:
\* YYYY-MM-DDTHH:MM:SS, then nothing (naive), "Z" or a +HH:MM / -HH:MM
\* offset.  A non-str argument is a TypeError, any other str a ValueError.
date_parser_parse(v) ==
    IF v.t # "str" THEN Raise("TypeError")
    ELSE LET s == v.s
             shape == /\ Len(s) \in {19, 20, 25}
                      /\ SubSeq(s, 1, 8) = YearMonth
                      /\ \A i \in {9, 10, 12, 13, 15, 16, 18, 19} : IsDigit(s[i])
                      /\ s[11] = "T" /\ s[14] = ":" /\ s[17] = ":"
                      /\ Len(s) = 20 => s[20] = "Z"
                      /\ Len(s) = 25 => /\ s[20] \in {"+", "-"}
                                       /\ \A i \in {21, 22, 24, 25} : IsDigit(s[i])
                                       /\ s[23] = ":"
         IN  IF ~shape THEN Raise("ValueError")
             ELSE LET day == N2(s, 9)
                      h == N2(s, 12)
                      m == N2(s, 15)
                      sec == N2(s, 18)
                      secs == (day - 1) * 86400 + h * 3600 + m * 60 + sec
                      offabs == IF Len(s) = 25
                                THEN N2(s, 21) * 3600 + N2(s, 24) * 60 ELSE 0
                      off == IF Len(s) = 25 /\ s[20] = "-" THEN 0 - offabs ELSE offabs
                  IN  IF day \in 1..31 /\ h < 24 /\ m < 60 /\ sec < 60
                         /\ (Len(s) = 25 => N2(s, 21) < 24 /\ N2(s, 24) < 60)
                      THEN Return(DateTime(secs, 0, Len(s) # 19, off))
                      ELSE Raise("ValueError")

\* ClockifyDatetime.init_from_string
init_from_string(clockify_date_string, local) ==
    LET p == date_parser_parse(clockify_date_string)
    IN  IF p.exc # "none" THEN p
        ELSE Return(ClockifyDatetime(p.val, local))

-----------------------------------------------------------------------------
(* APIObject and its subclasses                                            *)

APIObjectV(cls, obj_id) == [t |-> "obj", cls |-> cls, obj_id |-> obj_id]
NamedAPIObjectV(cls, obj_id, name) ==
    [t |-> "obj", cls |-> cls, obj_id |-> obj_id, name |-> name]
ProjectStubV(obj_id) == NamedAPIObjectV("ProjectStub", obj_id, None)
TimeEntryV(obj_id, start, description, project, end, billable) ==
    [t |-> "obj", cls |-> "TimeEntry", obj_id |-> obj_id, start |-> start,
     description |-> description, project |-> project, end |-> end,
     billable |-> billable]

\* TimeEntry.__init__ default of billable
DefaultBillable == Str(<<"f", "a", "l", "s", "e">>)

\* APIObject.get_item: dict_in[key]; only KeyError is caught, and
\* raise_error is never read.  Subscripting a str, None or int with a str
\* key is a TypeError.
get_item(dict_in, key, raise_error) ==
    IF dict_in.t # "dict" THEN Raise("TypeError")
    ELSE IF key \in DOMAIN dict_in.d THEN Return(dict_in.d[key])
    ELSE Raise("ObjectParseException")

\* APIObject.get_datetime
get_datetime(dict_in, key, raise_error, local) ==
    LET date_str == get_item(dict_in, key, raise_error)
    IN  IF date_str.exc # "none" THEN date_str
        ELSE IF ~Truthy(date_str.val) THEN Return(None)
        ELSE LET p == init_from_string(date_str.val, local)
             IN  IF p.exc = "ValueError" THEN Raise("ObjectParseException")
                 ELSE p

\* cls(obj_id=..., name=...): only NamedAPIObject.__init__ (inherited by
\* User, Workspace and Project) takes a name; APIObject.__init__ and
\* ProjectStub.__init__ take obj_id alone.
NewWithName(cls, obj_id, name) ==
    IF cls \in {"NamedAPIObject", "User", "Workspace", "Project"}
    THEN Return(NamedAPIObjectV(cls, obj_id, name))
    ELSE Raise("TypeError")

\* APIObject.init_from_dict
APIObject_init_from_dict(cls, dict_in) ==
    LET obj_id == get_item(dict_in, "id", TRUE)
        name == get_item(dict_in, "name", TRUE)
    IN  IF obj_id.exc # "none" THEN obj_id
        ELSE IF name.exc # "none" THEN name
        ELSE NewWithName(cls, obj_id.val, name.val)

\* slip: the name is read without being required
NamedAPIObject_init_from_dict_name_optional(cls, dict_in) ==
    LET obj_id == get_item(dict_in, "id", TRUE)
        name == get_item(dict_in, "name", FALSE)
    IN  IF obj_id.exc # "none" THEN obj_id
        ELSE NewWithName(cls, obj_id.val, name.val)

\* NamedAPIObject.init_from_dict
NamedAPIObject_init_from_dict(cls, dict_in) ==
    LET obj_id == get_item(dict_in, "id", TRUE)
        name == get_item(dict_in, "name", TRUE)
    IN  IF obj_id.exc # "none" THEN obj_id
        ELSE IF name.exc # "none" THEN name
        ELSE NewWithName(cls, obj_id.val, name.val)

\* Python slices msg[:stop] and msg[start:] (a negative index counts from
\* the end)
SliceTo(msg, stop) ==
    LET n == IF stop >= 0 THEN stop ELSE Len(msg) + stop
    IN  IF n <= 0 THEN <<>> ELSE IF n >= Len(msg) THEN msg ELSE SubSeq(msg, 1, n)
SliceFrom(msg, start) ==
    LET n == IF start >= 0 THEN start ELSE Len(msg) + start
    IN  IF n <= 0 THEN msg ELSE IF n >= Len(msg) THEN <<>>
        ELSE SubSeq(msg, n + 1, Len(msg))

\* slip: the ellipsis is appended to the first length characters
truncate_keep_length(msg, length) ==
    IF SliceFrom(msg, length) # <<>>
    THEN SliceTo(msg, length) \o <<".", ".", ".">>
    ELSE msg

\* TimeEntry.truncate
truncate(msg, length) ==
    IF SliceFrom(msg, length) # <<>>
    THEN SliceTo(msg, length - 3) \o <<".", ".", ".">>
    ELSE msg

\* default of truncate's length parameter
DefaultLength == 30

\* TimeEntry.init_from_dict
TimeEntry_init_from_dict(dict_in, local) ==
    LET interval == get_item(dict_in, "timeInterval", TRUE)
        obj_id == get_item(dict_in, "id", TRUE)
        start == get_datetime(interval.val, "start", TRUE, local)
        description == get_item(dict_in, "description", FALSE)
        project_id == get_item(dict_in, "projectId", FALSE)
        project == IF Truthy(project_id.val) THEN ProjectStubV(project_id.val)
                   ELSE None
        end == get_datetime(interval.val, "end", FALSE, local)
    IN  IF interval.exc # "none" THEN interval
        ELSE IF obj_id.exc # "none" THEN obj_id
        ELSE IF start.exc # "none" THEN start
        ELSE IF description.exc # "none" THEN description
        ELSE IF project_id.exc # "none" THEN project_id
        ELSE IF end.exc # "none" THEN end
        ELSE Return(TimeEntryV(obj_id.val, start.val, description.val,
                               project, end.val, DefaultBillable))

\* str(ClockifyDatetime(x)) as to_dict uses it; a value without tzinfo
\* attribute (None, a str) is an AttributeError
str_ClockifyDatetime(x, local) ==
    IF x.t # "datetime" THEN Raise("AttributeError")
    ELSE Return(clockify_datetime(ClockifyDatetime(x, local)))

Ext(f, k, v) == [x \in DOMAIN f \cup {k} |-> IF x = k THEN v ELSE f[x]]

\* slip: the falsy items are not removed from the dictionary
to_dict_unfiltered(self, local) ==
    LET start == str_ClockifyDatetime(self.start, local)
        as_dict == [id |-> self.obj_id, start |-> start.val,
                    description |-> self.description,
                    billable |-> self.billable]
        end == str_ClockifyDatetime(self.end, local)
        with_end == IF Truthy(self.end) THEN Ext(as_dict, "end", end.val)
                    ELSE as_dict
        with_project == IF Truthy(self.project)
                        THEN Ext(with_end, "projectId", self.project.obj_id)
                        ELSE with_end
    IN  IF start.exc # "none" THEN start
        ELSE IF Truthy(self.end) /\ end.exc # "none" THEN end
        ELSE Return(Dict(with_project))

\* TimeEntry.to_dict
to_dict(self, local) ==
    LET start == str_ClockifyDatetime(self.start, local)
        as_dict == [id |-> self.obj_id, start |-> start.val,
                    description |-> self.description,
                    billable |-> self.billable]
        end == str_ClockifyDatetime(self.end, local)
        with_end == IF Truthy(self.end) THEN Ext(as_dict, "end", end.val)
                    ELSE as_dict
        with_project == IF Truthy(self.project)
                        THEN Ext(with_end, "projectId", self.project.obj_id)
                        ELSE with_end
    IN  IF start.exc # "none" THEN start
        ELSE IF Truthy(self.end) /\ end.exc # "none" THEN end
        ELSE IF Truthy(self.project) /\ self.project.t # "obj"
             THEN Raise("AttributeError")
        ELSE Return(Dict([x \in {y \in DOMAIN with_project :
                                     Truthy(with_project[y])}
                             |-> with_project[x]]))

-----------------------------------------------------------------------------
(* Inputs                                                                  *)

Absent == [t |-> "absent"]   \* marks a key left out of an input dictionary
MkDict(f) == Dict([k \in {x \in DOMAIN f : f[x] # Absent} |-> f[k]])

\* offsets of the local zone and of aware datetimes, in seconds
LocalOffsets == {h * 3600 : h \in (0 - MaxOffsetHours)..MaxOffsetHours}

\* wall clocks: midnight, 10:00:00 and 23:59:59 of the days 2..MaxDay+1
Instants == {d * 86400 + tod : d \in 1..MaxDay, tod \in {0, 36000, 86399}}

\* datetimes a caller can hand over: naive, UTC, local zone, another zone
DateTimesIn(local) ==
    {DateTime(secs, us, FALSE, 0) : secs \in Instants, us \in {0, 500000}}
    \cup {DateTime(secs, us, TRUE, off) : secs \in Instants, us \in {0, 500000},
                                         off \in {0, local, 7200}}

\* ISO text of a wall clock: naive, with "Z", or with a numeric offset
IsoText(secs, tail) == SubSeq(strftime(DateTime(secs, 0, FALSE, 0)), 1, 19) \o tail
IsoTails == {<<>>, <<"Z">>, <<"+", "0", "1", ":", "0", "0">>,
             <<"-", "0", "2", ":", "0", "0">>}
NotADate == <<"n", "o", "t", "-", "a", "-", "d", "a", "t", "e">>

\* values found under a date key of a response
DateValues ==
    {Absent, None, Str(<<>>), Str(NotADate), IntV(5)}
    \cup {Str(IsoText(secs, tail)) : secs \in Instants, tail \in IsoTails}
EndValues ==
    {Absent, None, Str(<<>>), Str(NotADate),
     Str(IsoText(MaxDay * 86400 + 39600, <<"Z">>))}

IdValues == {Absent, None, Str(<<"a">>), Str(<<"a", "b", "c">>)}
NameValues == {Absent, None, Str(<<>>), Str(<<"x">>)}
DescriptionValues == {Absent, Str(<<>>), Str(<<"d">>)}
ProjectIdValues == {Absent, None, Str(<<>>), Str(<<"p">>)}

IntervalValues ==
    {Absent, None, Str(<<"x">>), IntV(5)}
    \cup {MkDict([start |-> s, end |-> e]) : s \in DateValues, e \in EndValues}

TimeEntryDicts ==
    {MkDict([id |-> i, timeInterval |-> ti, description |-> d, projectId |-> p]) :
        i \in {Absent, Str(<<"a", "b", "c">>)}, ti \in IntervalValues,
        d \in DescriptionValues, p \in ProjectIdValues}

NamedDicts == {MkDict([id |-> i, name |-> n]) : i \in IdValues, n \in NameValues}

ItemKeys == {"id", "name", "start", "description"}

DateDicts == {MkDict([start |-> s]) : s \in DateValues}

Classes == {"User", "Workspace", "Project", "ProjectStub"}

Projects == {None, ProjectStubV(Str(<<"p">>)), ProjectStubV(Str(<<>>)),
             NamedAPIObjectV("Project", Str(<<"p">>), Str(<<"x">>)),
             NamedAPIObjectV("Project", None, Str(<<"x">>))}

BillableValues == {DefaultBillable, Str(<<"t", "r", "u", "e">>), Str(<<>>),
                   BoolV(FALSE)}

\* Time entries built in-process, obj_id and start set
TimeEntries(local) ==
    {TimeEntryV(i, st, d, p, e, b) :
        i \in {Str(<<"a">>)}, st \in DateTimesIn(local),
        d \in {Str(<<>>), Str(<<"d">>)}, p \in Projects,
        e \in {None, DateTime(MaxDay * 86400 + 39600, 0, FALSE, 0)},
        b \in BillableValues}

Chars == {"a", "."}
RECURSIVE StrsUpTo(_)
StrsUpTo(n) ==
    IF n = 0 THEN {<<>>}
    ELSE LET shorter == StrsUpTo(n - 1)
         IN  shorter \cup {Append(m, c) : m \in {x \in shorter : Len(x) = n - 1},
                                          c \in Chars}
Messages == StrsUpTo(MaxMsgLen)
\* a 40-character description
LongMessage == [i \in 1..40 |-> IF i % 7 = 0 THEN "." ELSE "a"]

-----------------------------------------------------------------------------
(* The calls.  The functions are pure: a behaviour is one call on inputs   *)
(* drawn from the sets above, and for to_dict a following init_from_dict   *)
(* on the dictionary it returned.                                          *)

Init ==
    /\ tzlocal \in LocalOffsets
    /\ call = [op |-> "none"]
    /\ ret = Return(None)

GetItem ==
    /\ call.op = "none"
    /\ \E dict_in \in NamedDicts \cup {None, Str(<<"x">>)}, key \in ItemKeys,
          raise_error \in BOOLEAN :
          /\ call' = [op |-> "get_item", dict_in |-> dict_in, key |-> key,
                      raise_error |-> raise_error]
          /\ ret' = get_item(dict_in, key, raise_error)
    /\ UNCHANGED tzlocal

GetDatetime ==
    /\ call.op = "none"
    /\ \E dict_in \in DateDicts, raise_error \in BOOLEAN :
          /\ call' = [op |-> "get_datetime", dict_in |-> dict_in,
                      key |-> "start", raise_error |-> raise_error]
          /\ ret' = get_datetime(dict_in, "start", raise_error, tzlocal)
    /\ UNCHANGED tzlocal

ClockifyDatetimeStr ==
    /\ call.op = "none"
    /\ \E datetime_in \in DateTimesIn(tzlocal) :
          /\ call' = [op |-> "clockify_datetime", datetime_in |-> datetime_in]
          /\ ret' = Return(clockify_datetime(ClockifyDatetime(datetime_in, tzlocal)))
    /\ UNCHANGED tzlocal

APIObjectInitFromDict ==
    /\ call.op = "none"
    /\ \E dict_in \in NamedDicts :
          /\ call' = [op |-> "APIObject.init_from_dict", cls |-> "APIObject",
                      dict_in |-> dict_in]
          /\ ret' = APIObject_init_from_dict("APIObject", dict_in)
    /\ UNCHANGED tzlocal

NamedInitFromDict ==
    /\ call.op = "none"
    /\ \E cls \in Classes, dict_in \in NamedDicts :
          /\ call' = [op |-> "NamedAPIObject.init_from_dict", cls |-> cls,
                      dict_in |-> dict_in]
          /\ ret' = NamedAPIObject_init_from_dict(cls, dict_in)
    /\ UNCHANGED tzlocal

TimeEntryInitFromDict ==
    /\ call.op = "none"
    /\ \E dict_in \in TimeEntryDicts :
          /\ call' = [op |-> "TimeEntry.init_from_dict", dict_in |-> dict_in]
          /\ ret' = TimeEntry_init_from_dict(dict_in, tzlocal)
    /\ UNCHANGED tzlocal

ToDict ==
    /\ call.op = "none"
    /\ \E self \in TimeEntries(tzlocal) :
          /\ call' = [op |-> "to_dict", self |-> self]
          /\ ret' = to_dict(self, tzlocal)
    /\ UNCHANGED tzlocal

\* init_from_dict applied to the dictionary the preceding to_dict returned
InitFromWireDict ==
    /\ call.op = "to_dict"
    /\ ret.exc = "none"
    /\ call' = [op |-> "round_trip", self |-> call.self, dict_in |-> ret.val]
    /\ ret' = TimeEntry_init_from_dict(ret.val, tzlocal)
    /\ UNCHANGED tzlocal

Truncate ==
    /\ call.op = "none"
    /\ \E msg \in Messages, length \in 0..MaxLength :
          /\ call' = [op |-> "truncate", msg |-> msg, length |-> length]
          /\ ret' = Return(Str(truncate(msg, length)))
    /\ UNCHANGED tzlocal

\* truncate(self.description) as __str__ calls it, length left to its default
TruncateDefault ==
    /\ call.op = "none"
    /\ \E msg \in Messages \cup {LongMessage, SubSeq(LongMessage, 1, 30)} :
          /\ call' = [op |-> "truncate", msg |-> msg, length |-> DefaultLength]
          /\ ret' = Return(Str(truncate(msg, DefaultLength)))
    /\ UNCHANGED tzlocal

Next ==
    \/ GetItem
    \/ GetDatetime
    \/ ClockifyDatetimeStr
    \/ APIObjectInitFromDict
    \/ NamedInitFromDict
    \/ TimeEntryInitFromDict
    \/ ToDict
    \/ InitFromWireDict
    \/ Truncate
    \/ TruncateDefault

Spec == Init /\ [][Next]_vars

-----------------------------------------------------------------------------
(* Properties                                                              *)

Has(dict, key) == dict.t = "dict" /\ key \in DOMAIN dict.d
Parsable(v) == date_parser_parse(v).exc = "none"
\* the instant of a datetime handed to the module, in seconds of UTC
InstantOf(dt, local) == dt.secs - (IF dt.aware THEN dt.off ELSE local)
EmptyStr == Str(<<>>)
Ellipsis == <<".", ".", ".">>

\* C1: a Time Entry dictionary with an id and a timeInterval holding a
\* parsable start, and without description, projectId and timeInterval.end,
\* is parsed successfully to an entry with project None, description ""
\* and end None.
C1_OptionalFieldTolerance ==
    (/\ call.op = "TimeEntry.init_from_dict"
     /\ Has(call.dict_in, "id")
     /\ Has(call.dict_in, "timeInterval")
     /\ Has(call.dict_in.d["timeInterval"], "start")
     /\ Parsable(call.dict_in.d["timeInterval"].d["start"])
     /\ ~Has(call.dict_in.d["timeInterval"], "end")
     /\ ~Has(call.dict_in, "description")
     /\ ~Has(call.dict_in, "projectId"))
    => /\ ret.exc = "none"
       /\ ret.val.obj_id = call.dict_in.d["id"]
       /\ ret.val.project = None
       /\ ret.val.description = EmptyStr
       /\ ret.val.end = None

\* C2 (as stated): to_dict followed by init_from_dict succeeds and gives
\* back the same id, the same start instant to the second, the same
\* description, the same billable value and the same project id.
C2_RoundTrip ==
    call.op = "round_trip"
    => /\ ret.exc = "none"
       /\ ret.val.obj_id = call.self.obj_id
       /\ InstantOf(ret.val.start, tzlocal) = InstantOf(call.self.start, tzlocal)
       /\ ret.val.description = call.self.description
       /\ ret.val.billable = call.self.billable
       /\ IF call.self.project = None THEN ret.val.project = None
          ELSE /\ ret.val.project # None
               /\ ret.val.project.obj_id = call.self.project.obj_id

\* what the dictionary returned by to_dict holds under key for a field value
Carries(dict, key, value) ==
    IF Truthy(value) THEN Has(dict, key) /\ dict.d[key] = value
    ELSE ~Has(dict, key)

\* C2 (amended): to_dict succeeds and its dictionary carries the id, the
\* start instant to the second as a UTC wire string, and the description,
\* the billable value and the project id whenever they are truthy; the
\* dictionary has start at top level and no timeInterval, so that
\* init_from_dict applied to it raises ObjectParseException.
C2_WireDictCarriesFieldsButIsNotParsed ==
    call.op = "round_trip"
    => /\ ret.exc = "ObjectParseException"
       /\ ~Has(call.dict_in, "timeInterval")
       /\ Carries(call.dict_in, "id", call.self.obj_id)
       /\ Has(call.dict_in, "start")
       /\ Parsable(call.dict_in.d["start"])
       /\ LET p == date_parser_parse(call.dict_in.d["start"]).val
          IN  /\ p.aware /\ p.off = 0
              /\ p.secs = InstantOf(call.self.start, tzlocal)
       /\ Carries(call.dict_in, "description", call.self.description)
       /\ Carries(call.dict_in, "billable", call.self.billable)
       /\ Carries(call.dict_in, "projectId",
                  IF call.self.project = None THEN None
                  ELSE call.self.project.obj_id)

C2_Witness ==
    /\ call.op = "round_trip"
    /\ ret.exc = "ObjectParseException"
    /\ call.self.project # None
    /\ Has(call.dict_in, "projectId")
    /\ Has(call.dict_in, "description")
    /\ call.self.start.us # 0
    /\ InstantOf(call.self.start, tzlocal) # call.self.start.secs

\* C3: the dictionary returned by to_dict has no falsy value; it has an end
\* key exactly when the entry's end is set, and a projectId key, equal to
\* the project's obj_id, exactly when a project with a non-empty id is
\* associated.
C3_FalsyFieldOmission ==
    call.op = "to_dict"
    => /\ ret.exc = "none"
       /\ ret.val.t = "dict"
       /\ \A k \in DOMAIN ret.val.d : Truthy(ret.val.d[k])
       /\ Has(ret.val, "end") <=> call.self.end # None
       /\ Has(ret.val, "projectId")
            <=> (call.self.project # None /\ Truthy(call.self.project.obj_id))
       /\ Has(ret.val, "projectId")
            => ret.val.d["projectId"] = call.self.project.obj_id
       /\ (call.self.end = None /\ call.self.project = None)
            => ~Has(ret.val, "end") /\ ~Has(ret.val, "projectId")

C3_Witness ==
    /\ call.op = "to_dict"
    /\ call.self.end = None
    /\ call.self.project = None
    /\ call.self.description = EmptyStr
    /\ ret.exc = "none"
    /\ DOMAIN ret.val.d = {"id", "start", "billable"}

\* C4: get_datetime raises ObjectParseException whenever the key is present
\* with a string that cannot be parsed as a date/time, whatever raise_error
\* is; it returns neither a value nor None for it.
C4_MalformedValueAlwaysFails ==
    (/\ call.op = "get_datetime"
     /\ Has(call.dict_in, call.key)
     /\ call.dict_in.d[call.key].t = "str"
     /\ ~Parsable(call.dict_in.d[call.key]))
    => ret.exc = "ObjectParseException"

\* C5: get_item returns the stored value when the key is present, raises
\* ObjectParseException when it is absent and raise_error is true, and
\* returns None without raising when it is absent and raise_error is false.
C5_ExtractField ==
    (call.op = "get_item" /\ call.dict_in.t = "dict")
    => IF Has(call.dict_in, call.key)
       THEN ret = Return(call.dict_in.d[call.key])
       ELSE IF call.raise_error THEN ret.exc = "ObjectParseException"
       ELSE ret = Return(None)

\* C6: init_from_dict of User, Workspace and Project raises
\* ObjectParseException for a dictionary lacking id or name, and otherwise
\* returns an object of the class whose obj_id and name are the
\* dictionary's id and name.
C6_NamedEntityFromDict ==
    (/\ call.op = "NamedAPIObject.init_from_dict"
     /\ call.cls \in {"User", "Workspace", "Project"})
    => IF Has(call.dict_in, "id") /\ Has(call.dict_in, "name")
       THEN /\ ret.exc = "none"
            /\ ret.val.cls = call.cls
            /\ ret.val.obj_id = call.dict_in.d["id"]
            /\ ret.val.name = call.dict_in.d["name"]
       ELSE ret.exc = "ObjectParseException"

C6_Witness ==
    /\ call.op = "NamedAPIObject.init_from_dict"
    /\ call.cls = "User"
    /\ ~Has(call.dict_in, "id")
    /\ Has(call.dict_in, "name")
    /\ call.dict_in.d["name"] = Str(<<"x">>)
    /\ ret.exc = "ObjectParseException"

\* C7: TimeEntry.init_from_dict either returns a Time Entry or raises
\* ObjectParseException, for every input dictionary.
C7_SingleErrorKind ==
    call.op = "TimeEntry.init_from_dict"
    => \/ ret.exc = "none" /\ ret.val.t = "obj" /\ ret.val.cls = "TimeEntry"
       \/ ret.exc = "ObjectParseException"

\* C8: for length >= 3, truncate gives a message longer than length as its
\* first length - 3 characters followed by "...", length characters in all,
\* and gives back unchanged a message of at most length characters.
C8_Truncation ==
    (call.op = "truncate" /\ call.length >= 3)
    => IF Len(call.msg) > call.length
       THEN /\ Len(ret.val.s) = call.length
            /\ SubSeq(ret.val.s, call.length - 2, call.length) = Ellipsis
            /\ SubSeq(ret.val.s, 1, call.length - 3)
                 = SubSeq(call.msg, 1, call.length - 3)
       ELSE ret.val.s = call.msg

C8_Witness ==
    /\ call.op = "truncate"
    /\ Len(call.msg) = 40
    /\ call.length = 30
    /\ Len(ret.val.s) = 30
    /\ SubSeq(ret.val.s, 28, 30) = Ellipsis

\* C9: a naive datetime and the same wall clock with the local zone
\* attached give the same clockify string, which is the UTC projection of
\* the wall clock read as local time, not the wall clock read as UTC.
C9_TimezoneNormalization ==
    (/\ call.op = "clockify_datetime"
     /\ \/ ~call.datetime_in.aware
        \/ call.datetime_in.off = tzlocal)
    => LET t == call.datetime_in
           local_aware == DateTime(t.secs, t.us, TRUE, tzlocal)
           naive == DateTime(t.secs, t.us, FALSE, 0)
       IN  /\ ret.exc = "none"
           /\ ret.val = Str(strftime(DateTime(t.secs - tzlocal, 0, TRUE, 0)))
           /\ ret.val = clockify_datetime(ClockifyDatetime(local_aware, tzlocal))
           /\ ret.val = clockify_datetime(ClockifyDatetime(naive, tzlocal))
           /\ tzlocal # 0 => ret.val # Str(strftime(t))

C9_Witness ==
    /\ call.op = "clockify_datetime"
    /\ ~call.datetime_in.aware
    /\ tzlocal # 0
    /\ ret.val # Str(strftime(call.datetime_in))

\* C10: APIObject.init_from_dict returns an object whose obj_id is the
\* dictionary's id for every dictionary containing id, with or without
\* name, and raises ObjectParseException for a dictionary lacking id.
C10_BaseEntityFromDict ==
    (call.op = "APIObject.init_from_dict" /\ call.cls = "APIObject")
    => IF Has(call.dict_in, "id")
       THEN ret.exc = "none" /\ ret.val.obj_id = call.dict_in.d["id"]
       ELSE ret.exc = "ObjectParseException"

====
